---- MODULE Spec2Model ----
(***************************************************************************)
(* Model of the caching, coalescing embeddings generator of               *)
(* chroma/embeddings/cached/embeddings_generator.go.                      *)
(*                                                                         *)
(* Goroutines of the program and how they appear here:                     *)
(*   - one goroutine per Generate call (Calls), which runs                 *)
(*     requestEmbeddings under the lock and then reads its sinks in order; *)
(*   - the sender goroutine spawned at line 104 (hpc = "handoff");         *)
(*   - the dispatch loop run (runAlive), which receives a request and      *)
(*     spawns handleGen;                                                   *)
(*   - one goroutine per handleGen (hpc from "generating" on).             *)
(* A batch is identified by the call that created it (a call creates at    *)
(* most one batch).                                                        *)
(***************************************************************************)
EXTENDS Integers, Sequences, FiniteSets, TLC

\* ---- bounds of the model ----
NumCalls == 2
NumKeys == 2
MaxDocs == 2
NumVals == 2

\* make(chan res, 1): the capacity of a response sink
SinkCap == 1

Calls == 1..NumCalls
Keys == 1..NumKeys
Vals == 1..NumVals

\* the inputs of Generate: every document sequence of length 0..MaxDocs
DocSeqs == UNION {[1..n -> Keys] : n \in 0..MaxDocs}

\* ---- errors and results ----
\* An error is its chain of fmt.Errorf("...: %w") prefixes, outermost first,
\* around the generator error that caused it (cause = the batch whose
\* Generator invocation returned it); cause 0 is the nil error.
NilErr == [wrap |-> <<>>, cause |-> 0]

GenErr(b) == [wrap |-> <<>>, cause |-> b]

Wrap(msg, e) == [wrap |-> <<msg>> \o e.wrap, cause |-> e.cause]

\* a nil chroma.Embedding
NilEmb == 0

\* type res struct { embedding; err }
res(embedding, err) == [embedding |-> embedding, err |-> err]

VARIABLES
    cache,      \* c.cache: a function from the cached documents to embeddings
    waiting,    \* c.waiting: a function from the in-flight documents to lists of sinks <<call, position>>
    lock,       \* c.lock: <<>> when free, else <<"req", c>> or <<"gen", b>>
    docs,       \* the documents argument of each Generate call
    pc,         \* position of each Generate call
    idx,        \* the loop variable i of Generate (1-based)
    embeddings, \* the local embeddings slice of Generate
    ret,        \* what each Generate call returned
    cancelled,  \* the calls whose own ctx argument has been cancelled
    sink,       \* the buffered channels of each call: sink[c][i] is the buffer of embeddingChans[i]
    written,    \* history: every res ever sent to sink[c][i], in order
    reg,        \* history: how requestEmbeddings treated position i of call c
    batch,      \* req.documents of the batch created by call c (<<>>: none)
    hpc,        \* position of the hand-off / handleGen goroutine of each batch
    hidx,       \* the loop variable i of handleGen (1-based)
    gres,       \* what the Generator returned to handleGen: [embeddings, err]
    ctxDone,    \* the lifetime context given to NewEmbeddingsGenerator is done
    runAlive,   \* the dispatch loop run has not returned
    crashed,    \* the process has exited after an unrecovered panic
    genCalls,   \* history: number of Generator invocations whose batch contained the key
    pubs        \* history: number of times handleGen has published the key (lines 129-143)

vars == <<cache, waiting, lock, docs, pc, idx, embeddings, ret, cancelled, sink, written, reg,
          batch, hpc, hidx, gres, ctxDone, runAlive, crashed, genCalls, pubs>>

callVars == <<docs, pc, idx, embeddings, ret, cancelled>>
handlerVars == <<hpc, hidx, gres>>
loopVars == <<ctxDone, runAlive>>

Free == <<>>

\* mutant of Unlock: the deferred Unlock is missing, the lock stays with its holder
UnlockForgotten(holder) == holder

\* lines 72 and 124: defer c.lock.Unlock(), run when the function returns or panics
Unlock(holder) == Free

\* ---- NewEmbeddingsGenerator ----
Init ==
    /\ cache = <<>>
    /\ waiting = <<>>
    /\ lock = Free
    /\ docs = [c \in Calls |-> <<>>]
    /\ pc = [c \in Calls |-> "idle"]
    /\ idx = [c \in Calls |-> 1]
    /\ embeddings = [c \in Calls |-> <<>>]
    /\ ret = [c \in Calls |-> [st |-> "none", embeddings |-> <<>>, err |-> NilErr]]
    /\ cancelled = {}
    /\ sink = [c \in Calls |-> <<>>]
    /\ written = [c \in Calls |-> <<>>]
    /\ reg = [c \in Calls |-> <<>>]
    /\ batch = [c \in Calls |-> <<>>]
    /\ hpc = [c \in Calls |-> "none"]
    /\ hidx = [c \in Calls |-> 1]
    /\ gres = [c \in Calls |-> [embeddings |-> <<>>, err |-> NilErr, ctxDone |-> FALSE]]
    /\ ctxDone = FALSE
    /\ runAlive = TRUE
    /\ crashed = FALSE
    /\ genCalls = [k \in Keys |-> 0]
    /\ pubs = [k \in Keys |-> 0]

\* ---- the shared maps ----

\* mutant of CacheHit: the cache is never consulted
CacheHitNever(cch, doc) == FALSE

\* line 85: embedding, ok := c.cache[doc]
CacheHit(cch, doc) == doc \in DOMAIN cch

\* mutant of NotWaiting: the waiting map is not consulted, every miss is generated
NotWaitingUnchecked(w, doc) == TRUE

\* line 91: _, ok := c.waiting[doc]; !ok
NotWaiting(w, doc) == doc \notin DOMAIN w

\* mutant of AppendWaiter: the list is replaced, not appended to
AppendWaiterReplace(w, doc, ch) ==
    [k \in DOMAIN w \cup {doc} |-> IF k = doc THEN <<ch>> ELSE w[k]]

\* line 99: c.waiting[doc] = append(c.waiting[doc], embeddingChans[i])
AppendWaiter(w, doc, ch) ==
    [k \in DOMAIN w \cup {doc} |->
        IF k = doc
        THEN (IF doc \in DOMAIN w THEN Append(w[doc], ch) ELSE <<ch>>)
        ELSE w[k]]

\* line 127: c.cache[doc] = embeddings[i]
StoreCache(cch, doc, e) == [k \in DOMAIN cch \cup {doc} |-> IF k = doc THEN e ELSE cch[k]]

\* mutant of DeleteWaiting: the waiting list is not cleaned up
DeleteWaitingNoop(w, doc) == w

\* line 142: delete(c.waiting, doc)
DeleteWaiting(w, doc) == [k \in DOMAIN w \ {doc} |-> w[k]]

\* ---- requestEmbeddings ----

\* mutant of ReqStep: the continue of line 88 is missing, so a cache hit is
\* sent to the sink and the position is registered as a waiter as well
ReqStepNoContinue(st, c, i, doc) ==
    [st EXCEPT !.chans[i] = IF CacheHit(cache, doc)
                            THEN Append(@, res(cache[doc], NilErr)) ELSE @,
               !.gen = IF NotWaiting(st.waiting, doc) THEN Append(@, doc) ELSE @,
               !.waiting = AppendWaiter(@, doc, <<c, i>>),
               !.how = Append(@, IF CacheHit(cache, doc) THEN "hit"
                                 ELSE IF NotWaiting(st.waiting, doc) THEN "fresh" ELSE "join")]

\* One iteration of the loop of lines 84-100 for docs[i] = doc. st holds the
\* locals of the call (chans: embeddingChans, gen: docsToGenerate), the
\* waiting map as updated so far, and how each position was treated.
ReqStep(st, c, i, doc) ==
    IF CacheHit(cache, doc)
    THEN [st EXCEPT !.chans[i] = Append(@, res(cache[doc], NilErr)),
                    !.how = Append(@, "hit")]
    ELSE [st EXCEPT !.gen = IF NotWaiting(st.waiting, doc) THEN Append(@, doc) ELSE @,
                    !.waiting = AppendWaiter(@, doc, <<c, i>>),
                    !.how = Append(@, IF NotWaiting(st.waiting, doc) THEN "fresh" ELSE "join")]

RECURSIVE ReqLoop(_, _, _, _)
ReqLoop(st, c, i, ds) ==
    IF i > Len(ds) THEN st ELSE ReqLoop(ReqStep(st, c, i, ds[i]), c, i + 1, ds)

\* lines 74-100: the channels are made empty, then the loop runs
RequestEmbeddings(c, ds) ==
    ReqLoop([chans |-> [i \in 1..Len(ds) |-> <<>>], gen |-> <<>>,
             waiting |-> waiting, how |-> <<>>], c, 1, ds)

Range(s) == {s[i] : i \in 1..Len(s)}

\* mutant of ShouldDispatch: a request is handed off even when nothing is to be generated
ShouldDispatchAlways(gen) == TRUE

\* line 102: if len(docsToGenerate) > 0
ShouldDispatch(gen) == Len(gen) > 0

\* Generate is called with ds and its requestEmbeddings takes the lock (lines
\* 50-51, 71). A call still blocked at c.lock.Lock() has touched nothing, so
\* it is a call not yet made. Calls are numbered in the order in which they
\* take the lock.
Generate(c, ds) ==
    /\ ~crashed
    /\ pc[c] = "idle"
    /\ \A d \in Calls : d < c => pc[d] # "idle"
    /\ lock = Free
    /\ lock' = <<"req", c>>
    /\ docs' = [docs EXCEPT ![c] = ds]
    /\ pc' = [pc EXCEPT ![c] = "crit"]
    /\ UNCHANGED <<cache, waiting, idx, embeddings, ret, cancelled, sink, written, reg,
                   batch, handlerVars, loopVars, crashed, genCalls, pubs>>

\* lines 74-113 and the deferred Unlock; then line 53 of Generate
ReqBody(c) ==
    /\ ~crashed
    /\ pc[c] = "crit"
    /\ LET st == RequestEmbeddings(c, docs[c])
       IN /\ waiting' = st.waiting
          /\ sink' = [sink EXCEPT ![c] = st.chans]
          /\ written' = [written EXCEPT ![c] = st.chans]
          \* a waiter belongs to the period of its key in the waiting map
          \* that the next publication of the key ends; scopeEnded: the
          \* call handed off a batch when the lifetime context was done
          /\ reg' = [reg EXCEPT ![c] =
                        [i \in 1..Len(docs[c]) |->
                            [how |-> st.how[i],
                             epoch |-> IF st.how[i] = "hit" THEN 0 ELSE pubs[docs[c][i]] + 1,
                             scopeEnded |-> ctxDone /\ ShouldDispatch(st.gen)]]]
          /\ batch' = [batch EXCEPT ![c] = st.gen]
          \* lines 102-105: go func() { c.gen <- genReq{ctx, docsToGenerate} }()
          /\ hpc' = [hpc EXCEPT ![c] = IF ShouldDispatch(st.gen) THEN "handoff" ELSE "none"]
    /\ lock' = Unlock(lock)
    /\ pc' = [pc EXCEPT ![c] = "recv"]
    /\ idx' = [idx EXCEPT ![c] = 1]
    /\ embeddings' = [embeddings EXCEPT ![c] = [i \in 1..Len(docs[c]) |-> NilEmb]]
    /\ UNCHANGED <<cache, docs, ret, cancelled, hidx, gres, loopVars, crashed, genCalls, pubs>>

\* mutant of SetEmbedding: the result is appended to the slice that line 53
\* made with len(documents) elements
SetEmbeddingAppend(embs, i, e) == Append(embs, e)

\* line 60: embeddings[i] = r.embedding
SetEmbedding(embs, i, e) == [embs EXCEPT ![i] = e]

\* mutant of ReturnErr: the embeddings read so far are returned with the error
ReturnErrPartial(embs, e) ==
    [st |-> "err", embeddings |-> embs, err |-> Wrap("getting embedding", e)]

\* mutant of ReturnErr: the error of the sink is returned as it is
ReturnErrUnwrapped(embs, e) == [st |-> "err", embeddings |-> <<>>, err |-> e]

\* line 57: return nil, fmt.Errorf("getting embedding: %w", r.err)
ReturnErr(embs, e) ==
    [st |-> "err", embeddings |-> <<>>, err |-> Wrap("getting embedding", e)]

\* line 63: return embeddings, nil
ReturnOk(embs) == [st |-> "ok", embeddings |-> embs, err |-> NilErr]

\* ---- Generate, lines 54-61: one iteration, r := <-embeddingChans[i] ----
Recv(c) ==
    /\ ~crashed
    /\ pc[c] = "recv"
    /\ idx[c] <= Len(docs[c])
    /\ Len(sink[c][idx[c]]) > 0
    /\ LET r == Head(sink[c][idx[c]])
       IN /\ sink' = [sink EXCEPT ![c][idx[c]] = Tail(@)]
          /\ IF r.err # NilErr
             THEN /\ ret' = [ret EXCEPT ![c] = ReturnErr(embeddings[c], r.err)]
                  /\ pc' = [pc EXCEPT ![c] = "done"]
                  /\ UNCHANGED <<idx, embeddings>>
             ELSE /\ embeddings' = [embeddings EXCEPT ![c] = SetEmbedding(@, idx[c], r.embedding)]
                  /\ idx' = [idx EXCEPT ![c] = @ + 1]
                  /\ UNCHANGED <<ret, pc>>
    /\ UNCHANGED <<cache, waiting, lock, docs, cancelled, written, reg, batch, handlerVars,
                   loopVars, crashed, genCalls, pubs>>

\* line 63: return embeddings, nil
Return(c) ==
    /\ ~crashed
    /\ pc[c] = "recv"
    /\ idx[c] > Len(docs[c])
    /\ ret' = [ret EXCEPT ![c] = ReturnOk(embeddings[c])]
    /\ pc' = [pc EXCEPT ![c] = "done"]
    /\ UNCHANGED <<cache, waiting, lock, docs, idx, embeddings, cancelled, sink, written, reg,
                   batch, handlerVars, loopVars, crashed, genCalls, pubs>>

\* The caller of call c cancels the ctx it gave to Generate. Generate and
\* requestEmbeddings never look at ctx; it only travels in genReq (line 104)
\* to the Generator (line 119), which is the only reader of it. A
\* cancellation at any other moment is therefore either this one (it came
\* before the invocation) or one that nothing observes.
CancelCall(c) ==
    /\ ~crashed
    /\ hpc[c] = "generating"
    /\ c \notin cancelled
    /\ cancelled' = cancelled \cup {c}
    /\ UNCHANGED <<cache, waiting, lock, docs, pc, idx, embeddings, ret, sink, written, reg,
                   batch, handlerVars, loopVars, crashed, genCalls, pubs>>

\* ---- run ----

\* mutant of LoopReady: handleGen is called without go, so the loop is busy
\* until the handler returns
LoopReadyAfterHandler == runAlive /\ \A b \in Calls : hpc[b] \in {"none", "handoff", "done"}

\* mutant of LoopReady: the loop has no ctx.Done() case and never stops
LoopReadyForEver == TRUE

\* lines 148-153: the loop is at its select until it returns; go handleGen
\* brings it back there at once
LoopReady == runAlive

\* lines 152-153: the loop receives the request of batch b from the sender
\* goroutine and spawns handleGen, which invokes the Generator (line 119).
\* select takes this case whenever a sender is ready, also when ctx.Done()
\* is ready too (it then chooses either).
RunRecv(b) ==
    /\ ~crashed
    /\ LoopReady
    /\ hpc[b] = "handoff"
    /\ hpc' = [hpc EXCEPT ![b] = "generating"]
    /\ genCalls' = [k \in Keys |-> IF k \in Range(batch[b]) THEN genCalls[k] + 1 ELSE genCalls[k]]
    /\ UNCHANGED <<cache, waiting, lock, callVars, sink, written, reg, batch, hidx, gres,
                   loopVars, crashed, pubs>>

\* lines 150-151: case <-ctx.Done(): return
RunExit ==
    /\ ~crashed
    /\ runAlive
    /\ ctxDone
    /\ runAlive' = FALSE
    /\ UNCHANGED <<cache, waiting, lock, callVars, sink, written, reg, batch, handlerVars,
                   ctxDone, crashed, genCalls, pubs>>

\* the owner of the lifetime context cancels it
CtxCancel ==
    /\ ~crashed
    /\ ~ctxDone
    /\ ctxDone' = TRUE
    /\ UNCHANGED <<cache, waiting, lock, callVars, sink, written, reg, batch, handlerVars,
                   runAlive, crashed, genCalls, pubs>>

\* ---- handleGen ----

\* What the Generator may return for n documents: it is an opaque collaborator,
\* so any slice of at most n embeddings, with or without an error.
GenOutcomes(n) == UNION {[1..m -> Vals] : m \in 0..n}

\* line 119 returns: embeddings, err := c.generator.Generate(...); then the
\* goroutine blocks at c.lock.Lock() (line 123)
GenReturn(b, embs, failed) ==
    /\ ~crashed
    /\ hpc[b] = "generating"
    /\ gres' = [gres EXCEPT ![b] = [embeddings |-> embs,
                                    err |-> IF failed THEN GenErr(b) ELSE NilErr,
                                    \* req.ctx was done when the Generator returned
                                    ctxDone |-> b \in cancelled]]
    /\ hpc' = [hpc EXCEPT ![b] = "lock"]
    /\ UNCHANGED <<cache, waiting, lock, callVars, sink, written, reg, batch, hidx,
                   loopVars, crashed, genCalls, pubs>>

\* line 123: c.lock.Lock() succeeds
HandleLock(b) ==
    /\ ~crashed
    /\ hpc[b] = "lock"
    /\ lock = Free
    /\ lock' = <<"gen", b>>
    /\ hpc' = [hpc EXCEPT ![b] = "store"]
    /\ hidx' = [hidx EXCEPT ![b] = 1]
    /\ UNCHANGED <<cache, waiting, callVars, sink, written, reg, batch, gres,
                   loopVars, crashed, genCalls, pubs>>

\* line 127: c.cache[doc] = embeddings[i]. The index expression is evaluated
\* first: out of range, it panics, the deferred Unlock runs and the goroutine
\* dies with the panic unrecovered.
HandleStore(b) ==
    /\ ~crashed
    /\ hpc[b] = "store"
    /\ IF hidx[b] > Len(gres[b].embeddings)
       THEN /\ hpc' = [hpc EXCEPT ![b] = "panic"]
            /\ lock' = Unlock(lock)
            /\ UNCHANGED cache
       ELSE /\ cache' = StoreCache(cache, batch[b][hidx[b]], gres[b].embeddings[hidx[b]])
            /\ hpc' = [hpc EXCEPT ![b] = "notify"]
            /\ UNCHANGED lock
    /\ UNCHANGED <<waiting, callVars, sink, written, reg, batch, hidx, gres,
                   loopVars, crashed, genCalls, pubs>>

\* mutant of Notification: the embedding of the first document is sent for every document
NotificationFirst(g, i) ==
    IF g.err # NilErr
    THEN res(NilEmb, Wrap("generating embedding for document", g.err))
    ELSE res(g.embeddings[1], NilErr)

\* lines 133-138: what is sent to the waiters of req.documents[i]
Notification(g, i) ==
    IF g.err # NilErr
    THEN res(NilEmb, Wrap("generating embedding for document", g.err))
    ELSE res(g.embeddings[i], NilErr)

\* mutant of WaitersOf: only the first waiter of the document is notified
WaitersOfFirstOnly(w, doc) == IF doc \in DOMAIN w THEN {w[doc][1]} ELSE {}

\* the sinks that line 130 ranges over
WaitersOf(w, doc) == IF doc \in DOMAIN w THEN Range(w[doc]) ELSE {}

\* mutant of CanSend: the sinks are made without a buffer, so a send needs a
\* receiver waiting at the sink, which the model never provides
CanSendUnbuffered(q) == FALSE

\* lines 134 and 138: ch <- res{...} on a channel made with capacity 1 (line
\* 79) goes through when the buffer has room
CanSend(q) == Len(q) < SinkCap

\* lines 129-143 for req.documents[i], then the next iteration or the return
\* with the deferred Unlock. A send blocks while the sink is full.
HandleNotify(b) ==
    /\ ~crashed
    /\ hpc[b] = "notify"
    /\ LET doc == batch[b][hidx[b]]
           chs == WaitersOf(waiting, doc)
           r == Notification(gres[b], hidx[b])
       IN /\ \A ch \in chs : CanSend(sink[ch[1]][ch[2]])
          /\ sink' = [c \in Calls |-> [i \in 1..Len(sink[c]) |->
                         IF <<c, i>> \in chs THEN Append(sink[c][i], r) ELSE sink[c][i]]]
          /\ written' = [c \in Calls |-> [i \in 1..Len(written[c]) |->
                         IF <<c, i>> \in chs THEN Append(written[c][i], r) ELSE written[c][i]]]
          /\ waiting' = IF doc \in DOMAIN waiting THEN DeleteWaiting(waiting, doc) ELSE waiting
          /\ pubs' = [pubs EXCEPT ![doc] = @ + 1]
    /\ IF hidx[b] = Len(batch[b])
       THEN /\ hpc' = [hpc EXCEPT ![b] = "done"]
            /\ lock' = Unlock(lock)
            /\ UNCHANGED hidx
       ELSE /\ hpc' = [hpc EXCEPT ![b] = "store"]
            /\ hidx' = [hidx EXCEPT ![b] = @ + 1]
            /\ UNCHANGED lock
    /\ UNCHANGED <<cache, callVars, reg, batch, gres, loopVars, crashed, genCalls>>

\* the unrecovered panic of a handleGen goroutine ends the process
Crash ==
    /\ ~crashed
    /\ \E b \in Calls : hpc[b] = "panic"
    /\ crashed' = TRUE
    /\ UNCHANGED <<cache, waiting, lock, callVars, sink, written, reg, batch, handlerVars,
                   loopVars, genCalls, pubs>>

Next ==
    \/ \E c \in Calls, ds \in DocSeqs : Generate(c, ds)
    \/ \E c \in Calls : ReqBody(c)
    \/ \E c \in Calls : Recv(c)
    \/ \E c \in Calls : Return(c)
    \/ \E c \in Calls : CancelCall(c)
    \/ \E b \in Calls : RunRecv(b)
    \/ RunExit
    \/ CtxCancel
    \/ \E b \in Calls, failed \in BOOLEAN : \E embs \in GenOutcomes(Len(batch[b])) :
           GenReturn(b, embs, failed)
    \/ \E b \in Calls : HandleLock(b)
    \/ \E b \in Calls : HandleStore(b)
    \/ \E b \in Calls : HandleNotify(b)
    \/ Crash

Spec == Init /\ [][Next]_vars

\* ======================================================================
\* Properties
\* ======================================================================

\* the positions of call c that requestEmbeddings has treated
Positions(c) == 1..Len(reg[c])

\* every sink made so far, as <<call, position>>
Sinks == UNION {{<<c, i>> : i \in Positions(c)} : c \in Calls}

KeyOf(s) == docs[s[1]][s[2]]

HowOf(s) == reg[s[1]][s[2]].how

\* everything sent so far to sink s
WrittenTo(s) == written[s[1]][s[2]]

Delivered(s) == Len(WrittenTo(s)) > 0

\* the sinks registered as waiters of key k during its e-th period in the
\* waiting map (the period that the e-th publication of k ends)
WaitersIn(k, e) == {s \in Sinks : KeyOf(s) = k /\ reg[s[1]][s[2]].epoch = e}

\* the batches created with key k during that period
BatchesIn(k, e) ==
    {b \in Calls : k \in Range(batch[b]) /\ \E i \in Positions(b) : <<b, i>> \in WaitersIn(k, e)}

Occurrences(k, ds) == Cardinality({i \in 1..Len(ds) : ds[i] = k})

\* the Generator has been invoked with the batch of call b
Invoked(b) == hpc[b] \notin {"none", "handoff"}

\* C1 (coalescing): all the Generate calls that ask for a key while it is not
\* cached and until it is published share one batch: exactly one batch
\* containing the key (once) is created for them, so the Generator is invoked
\* at most once with it, it has been invoked once any of them is notified, and
\* all of them are sent the same result.
C1_Coalescing ==
    \A k \in Keys :
        /\ genCalls[k] <= pubs[k] + 1
        /\ \A e \in 1..(pubs[k] + 1) :
              WaitersIn(k, e) # {} =>
                  /\ Cardinality(BatchesIn(k, e)) = 1
                  /\ \A b \in BatchesIn(k, e) : Occurrences(k, batch[b]) = 1
                  /\ \A s \in WaitersIn(k, e) :
                        Delivered(s) =>
                            /\ \A b \in BatchesIn(k, e) : Invoked(b)
                            /\ genCalls[k] >= e
                            /\ \A t \in WaitersIn(k, e) :
                                  Delivered(t) => WrittenTo(t) = WrittenTo(s)

\* two different calls waited for the same key during its first period, one
\* Generator invocation served both and both were sent its embedding
C1_Witness ==
    \E k \in Keys : \E s, t \in WaitersIn(k, 1) :
        /\ s[1] # t[1]
        /\ Delivered(s) /\ Delivered(t)
        /\ WrittenTo(s)[1].err = NilErr
        /\ genCalls[k] = 1

\* the embeddings that Generate calls have returned for key k without error
OkVals(rt, k) ==
    {rt[s[1]].embeddings[s[2]] : s \in {t \in Sinks : rt[t[1]].st = "ok" /\ KeyOf(t) = k}}

\* C2 (idempotent cache): once a Generate call containing key k has returned
\* without error, no later step invokes the Generator with k, every call that
\* registers from then on finds the embedding returned for k in its sink at
\* once, and no call ever returns another embedding for k.
C2_IdempotentCache ==
    [][\A k \in Keys :
          /\ Cardinality(OkVals(ret', k)) <= 1
          /\ OkVals(ret, k) # {} =>
                /\ genCalls'[k] = genCalls[k]
                /\ OkVals(ret', k) = OkVals(ret, k)
                /\ \A c \in Calls :
                      (pc[c] = "crit" /\ pc'[c] = "recv") =>
                          \A i \in 1..Len(docs[c]) :
                              docs[c][i] = k =>
                                  written'[c][i] \in {<<res(v, NilErr)>> : v \in OkVals(ret, k)}
      ]_vars

\* a call returned the embedding of a key that it found in the cache, after
\* another call had returned it from the only Generator invocation for the key
C2_Witness ==
    \E s, t \in Sinks :
        /\ s[1] # t[1]
        /\ KeyOf(s) = KeyOf(t)
        /\ HowOf(s) = "fresh" /\ HowOf(t) = "hit"
        /\ ret[s[1]].st = "ok" /\ ret[t[1]].st = "ok"
        /\ genCalls[KeyOf(s)] = 1

\* the period of key k in which call b registered it (k is in the batch of b)
EpochIn(b, k) == CHOOSE e \in {reg[b][i].epoch : i \in {j \in Positions(b) : docs[b][j] = k}} : TRUE

\* every sink that waits for key k on the batch of call b: the waiters of the
\* creating call and of the calls that joined the key afterwards
BatchWaiters(b, k) == WaitersIn(k, EpochIn(b, k))

\* handleGen of batch b has ended: it returned, or it died of a panic
Handled(b) == hpc[b] \in {"done", "panic"}

Failed(b) == gres[b].err # NilErr

\* what line 134 sends for the error of the Generator invocation of batch b
FailureOf(b) == res(NilEmb, Wrap("generating embedding for document", GenErr(b)))

\* C3 (failure fan-out): once handleGen has ended for a batch whose Generator
\* invocation returned an error, every waiter of every key of the batch has
\* been sent that error, and every such caller that has returned has returned
\* an error.
C3_FailureFanOut ==
    \A b \in Calls :
        (Handled(b) /\ Failed(b)) =>
            \A k \in Range(batch[b]) : \A s \in BatchWaiters(b, k) :
                /\ WrittenTo(s) = <<FailureOf(b)>>
                /\ pc[s[1]] = "done" => ret[s[1]].st = "err"

\* a later batch than that of call b contains key k
LaterBatch(b, k) ==
    \E b2 \in Calls : k \in Range(batch[b2]) /\ EpochIn(b2, k) > EpochIn(b, k)

\* C4 (no negative caching): after handleGen has ended for a failed batch
\* containing key a, and until a later call asks for a again, a is neither
\* cached nor in the waiting map (so that the next call that contains it
\* finds it missing and creates a fresh batch with it).
C4_NoNegativeCaching ==
    \A b \in Calls : \A k \in Range(batch[b]) :
        (Handled(b) /\ Failed(b) /\ ~LaterBatch(b, k)) =>
            (k \notin DOMAIN cache /\ k \notin DOMAIN waiting)

\* handleGen of batch b has executed line 127 for position i
Stored(b, i) ==
    /\ hpc[b] \in {"store", "notify", "done", "panic"}
    /\ \/ hidx[b] > i
       \/ hidx[b] = i /\ hpc[b] \in {"notify", "done"}

\* C5: every entry of the cache was written for a batch whose Generator
\* invocation succeeded and holds the embedding returned for the key; a
\* failed batch writes nothing.
C5_CacheOnlyOnSuccess ==
    \A k \in DOMAIN cache :
        \E b \in Calls : \E i \in 1..Len(batch[b]) :
            /\ batch[b][i] = k
            /\ Stored(b, i)
            /\ ~Failed(b)
            /\ cache[k] = gres[b].embeddings[i]

\* a step of the program itself: everything but the arrival of a new call and
\* the cancellation of the lifetime context
ProgramStep ==
    \/ \E c \in Calls : ReqBody(c) \/ Recv(c) \/ Return(c)
    \/ \E b \in Calls : RunRecv(b) \/ HandleLock(b) \/ HandleStore(b) \/ HandleNotify(b)
    \/ \E b \in Calls, failed \in BOOLEAN : \E embs \in GenOutcomes(Len(batch[b])) :
           GenReturn(b, embs, failed)
    \/ RunExit
    \/ Crash

\* every Generator invocation that has returned kept to its contract: an
\* error, or one embedding for each document
ContractKept ==
    \A b \in Calls :
        hpc[b] \in {"lock", "store", "notify", "done", "panic"} =>
            (Failed(b) \/ Len(gres[b].embeddings) = Len(batch[b]))

\* C6 (I3, liveness), as what a finite run shows: when every Generator
\* invocation has returned a success or an error, the lifetime context is not
\* done and the program can take no further step (so whoever still waits,
\* waits for ever), every waiter has been notified and every call has
\* returned.
C6_NoWaiterLeftBehind ==
    (ContractKept /\ ~ctxDone /\ ~ENABLED ProgramStep) =>
        /\ \A c \in Calls : pc[c] \in {"idle", "done"}
        /\ \A s \in Sinks : Delivered(s)

\* C7 (I3, safety): nothing is sent twice to a sink, and whenever handleGen is
\* about to send to the waiters of a document (holding the lock), each of
\* their sinks has room, so the send does not block.
C7_SinkWrittenOnce ==
    /\ \A s \in Sinks : Len(WrittenTo(s)) <= 1
    /\ \A b \in Calls :
          hpc[b] = "notify" =>
              \A ch \in WaitersOf(waiting, batch[b][hidx[b]]) :
                  Len(sink[ch[1]][ch[2]]) < SinkCap

\* one sink was filled by a cache hit and another, of a call that joined a
\* key in flight, by handleGen
C7_Witness ==
    \E s, t \in Sinks :
        /\ HowOf(s) = "hit" /\ Len(WrittenTo(s)) = 1
        /\ HowOf(t) = "join" /\ Len(WrittenTo(t)) = 1

\* C8 (I2): whenever the lock is free, no key is both in the cache and in the
\* waiting map.
C8_CacheWaitingDisjoint ==
    lock = Free => DOMAIN cache \cap DOMAIN waiting = {}

\* the lock is free, one key has been published into the cache and another
\* key is in the waiting map
C8_Witness ==
    /\ lock = Free
    /\ \E k \in DOMAIN cache : pubs[k] > 0
    /\ DOMAIN waiting # {}

\* the batch of call b contains key k and handleGen has not yet published k
Unpublished(b, k) ==
    \E i \in 1..Len(batch[b]) :
        /\ batch[b][i] = k
        /\ hpc[b] # "done"
        /\ hpc[b] \in {"store", "notify", "panic"} => hidx[b] <= i

\* C9 (I1): a key is in the waiting map exactly when one batch containing it
\* has been created and not yet published, and no two unpublished batches
\* contain the same key.
C9_OneBatchPerWaitingKey ==
    \A k \in Keys :
        LET bs == {b \in Calls : Unpublished(b, k)}
        IN /\ Cardinality(bs) <= 1
           /\ k \in DOMAIN waiting <=> Cardinality(bs) = 1

\* a second call has joined a key whose batch is being generated, while the
\* other key has been published
C9_Witness ==
    \E k \in DOMAIN waiting : \E b \in Calls :
        /\ Unpublished(b, k) /\ hpc[b] = "generating"
        /\ Len(waiting[k]) >= 2
        /\ \E k2 \in Keys : pubs[k2] > 0

\* C10 (I4): no step removes an entry of the cache or changes its value.
C10_CacheMonotonic ==
    [][\A k \in DOMAIN cache : k \in DOMAIN cache' /\ cache'[k] = cache[k]]_vars

\* a cached key was asked for again and served from the cache, and a batch
\* for the other key has been published since
C10_Witness ==
    \E s \in Sinks :
        /\ HowOf(s) = "hit"
        /\ \E b \in Calls : hpc[b] = "done" /\ KeyOf(s) \notin Range(batch[b])
        /\ Cardinality(DOMAIN cache) = NumKeys

\* C11 (order preservation): a Generate call that returns without error
\* returns one embedding for each of its documents, and the i-th is the
\* embedding of the i-th document: the one the cache holds for it and, when
\* the call waited for it, the one the Generator returned at the position of
\* the document in its batch.
C11_OrderPreserved ==
    \A c \in Calls :
        ret[c].st = "ok" =>
            /\ Len(ret[c].embeddings) = Len(docs[c])
            /\ \A i \in 1..Len(docs[c]) :
                  LET k == docs[c][i]
                  IN /\ k \in DOMAIN cache
                     /\ ret[c].embeddings[i] = cache[k]
                     /\ reg[c][i].how # "hit" =>
                           \A b \in BatchesIn(k, reg[c][i].epoch) :
                               \E j \in 1..Len(batch[b]) :
                                   /\ batch[b][j] = k
                                   /\ j <= Len(gres[b].embeddings)
                                   /\ ret[c].embeddings[i] = gres[b].embeddings[j]

\* a call on two different documents, treated differently by
\* requestEmbeddings (cached, in flight or fresh), returned two different
\* embeddings
C11_Witness ==
    \E c \in Calls :
        /\ ret[c].st = "ok"
        /\ Len(docs[c]) = 2
        /\ docs[c][1] # docs[c][2]
        /\ reg[c][1].how # reg[c][2].how
        /\ ret[c].embeddings[1] # ret[c].embeddings[2]

\* C12 (all or nothing): a Generate call that has returned has returned
\* either no error and one embedding for each document, or an error and no
\* embeddings at all.
C12_AllOrNothing ==
    \A c \in Calls :
        pc[c] = "done" =>
            \/ /\ ret[c].st = "ok"
               /\ ret[c].err = NilErr
               /\ Len(ret[c].embeddings) = Len(docs[c])
               /\ \A i \in 1..Len(docs[c]) : ret[c].embeddings[i] \in Vals
            \/ /\ ret[c].st = "err"
               /\ ret[c].err # NilErr
               /\ ret[c].embeddings = <<>>

\* a call returned an error after it had read the embedding of its first
\* document
C12_Witness ==
    \E c \in Calls :
        /\ pc[c] = "done"
        /\ ret[c].st = "err"
        /\ idx[c] = 2
        /\ embeddings[c][1] \in Vals

\* a step that holds the lock
LockedStep == \E x \in Calls : ReqBody(x) \/ HandleStore(x) \/ HandleNotify(x)

\* a step that brings call c nearer to its return: its own steps, the steps
\* (other than the return of the Generator) of the batches that hold its
\* documents, the step of whoever holds the lock they need, and the end of
\* the process
ChainStep(c) ==
    \/ ReqBody(c) \/ Recv(c) \/ Return(c)
    \/ \E b \in Calls :
          /\ Range(batch[b]) \cap Range(docs[c]) # {}
          /\ RunRecv(b) \/ HandleLock(b) \/ HandleStore(b) \/ HandleNotify(b)
    \/ lock # Free /\ LockedStep
    \/ Crash

\* C13 (no cross-contamination): while Generator invocations are running, a
\* call in progress none of whose documents is in their batches never waits
\* for them: as long as the dispatch loop runs, a step of its own chain is
\* possible.
C13_NoCrossContamination ==
    \A c \in Calls :
        (/\ pc[c] \in {"crit", "recv"}
         /\ ~crashed
         /\ runAlive
         /\ \E b \in Calls : hpc[b] = "generating"
         /\ \A b \in Calls :
               hpc[b] = "generating" => Range(batch[b]) \cap Range(docs[c]) = {})
        => ENABLED ChainStep(c)

\* while the Generator invocation of an earlier batch is still running, a
\* later call on other documents has had its own batch generated and
\* published and has returned
C13_Witness ==
    \E b, c \in Calls :
        /\ b < c
        /\ hpc[b] = "generating"
        /\ Range(batch[b]) \cap Range(docs[c]) = {}
        /\ hpc[c] = "done"
        /\ pc[c] = "done"
        /\ ret[c].st = "ok"

\* C14 (lock discipline): the lock is held by a call only inside
\* requestEmbeddings and by a batch only inside the loop of handleGen, never
\* by a call that waits on its sinks nor by a batch that is handed off, in
\* the Generator or waiting for the lock; and whoever holds the lock can take
\* its next step at once.
C14_LockDiscipline ==
    /\ \A c \in Calls : lock = <<"req", c>> <=> pc[c] = "crit"
    /\ \A b \in Calls : lock = <<"gen", b>> <=> hpc[b] \in {"store", "notify"}
    /\ (lock # Free /\ ~crashed) => ENABLED LockedStep

\* a call holds the lock while the Generator runs for the batch of another
\* call, which waits on its sink
C14_Witness ==
    \E b, c \in Calls :
        /\ hpc[b] = "generating"
        /\ pc[b] = "recv"
        /\ lock = <<"req", c>>

\* C15, as claimed: a Generate call with no documents never takes the lock
\* and returns an error.
C15_EmptyInputRejected ==
    \A c \in Calls :
        (pc[c] # "idle" /\ docs[c] = <<>>) =>
            /\ lock # <<"req", c>>
            /\ pc[c] = "done" => ret[c].st = "err"

\* C15, amended: a Generate call with no documents takes the lock once,
\* leaves the cache and the waiting map as they are, makes no sink and hands
\* off no batch, and then returns an empty result without error and without
\* waiting.
C15_EmptyInputAccepted ==
    [][\A c \in Calls :
          docs[c] = <<>> =>
              /\ (pc[c] = "crit" /\ pc'[c] # "crit") =>
                    /\ pc'[c] = "recv"
                    /\ cache' = cache
                    /\ waiting' = waiting
                    /\ sink'[c] = <<>>
                    /\ batch'[c] = <<>>
                    /\ hpc'[c] = "none"
              /\ (pc[c] = "recv" /\ ~crashed) => ENABLED Return(c)
              /\ (pc[c] = "recv" /\ pc'[c] # "recv") =>
                    /\ pc'[c] = "done"
                    /\ ret'[c] = [st |-> "ok", embeddings |-> <<>>, err |-> NilErr]
      ]_vars

\* a call with no documents has returned an empty result while another call
\* is waiting for a document in flight
C15_Witness ==
    \E c \in Calls :
        /\ pc[c] = "done"
        /\ docs[c] = <<>>
        /\ ret[c] = [st |-> "ok", embeddings |-> <<>>, err |-> NilErr]
        /\ DOMAIN waiting # {}

\* C16 (caller cancellation): when the ctx of the call that created a batch
\* was cancelled while the Generator ran, and the Generator kept to its
\* contract, then once handleGen has ended I1 and I2 hold and every waiter of
\* another call on the keys of the batch has been notified.
C16_CancellationIsolated ==
    \A b \in Calls :
        (gres[b].ctxDone /\ Handled(b) /\ ContractKept) =>
            /\ C8_CacheWaitingDisjoint
            /\ C9_OneBatchPerWaitingKey
            /\ \A k \in Range(batch[b]) : \A s \in BatchWaiters(b, k) :
                  s[1] # b => Delivered(s)

\* call b handed off its batch after the lifetime context was done
HandedOffLate(b) == Len(reg[b]) > 0 /\ reg[b][1].scopeEnded

\* C17, as claimed: the Generator is never invoked with a batch that was
\* handed off after the lifetime context was done.
C17_NoLateBatchAccepted ==
    \A b \in Calls : HandedOffLate(b) => ~Invoked(b)

\* C17, amended: once the dispatch loop has returned, no batch is received
\* any more and no Generator invocation is started.
C17_NoBatchAfterLoopExit ==
    [][~runAlive =>
          /\ genCalls' = genCalls
          /\ \A b \in Calls : hpc[b] = "handoff" => hpc'[b] = "handoff"
      ]_vars

\* the loop has returned and a call waits for a batch that is still handed off
C17_Witness ==
    /\ ~runAlive
    /\ \E b \in Calls : hpc[b] = "handoff" /\ pc[b] = "recv" /\ idx[b] <= Len(docs[b])

\* document i of ds is neither cached nor in the waiting map when
\* requestEmbeddings inspects it: the maps did not hold it when the lock was
\* taken and no earlier position of the call has registered it
Missing(ds, i) ==
    /\ ds[i] \notin DOMAIN cache
    /\ ds[i] \notin DOMAIN waiting
    /\ \A j \in 1..(i - 1) : ds[j] # ds[i]

\* the missing documents among the first i of ds, in input order
RECURSIVE MissingDocs(_, _)
MissingDocs(ds, i) ==
    IF i = 0 THEN <<>>
    ELSE IF Missing(ds, i) THEN Append(MissingDocs(ds, i - 1), ds[i])
    ELSE MissingDocs(ds, i - 1)

\* C18 (batch contents): when requestEmbeddings returns, the batch of the
\* call is exactly its missing documents in input order, and a batch is
\* handed off exactly when there is one.
C18_BatchContents ==
    [][\A c \in Calls :
          (pc[c] = "crit" /\ pc'[c] = "recv") =>
              /\ batch'[c] = MissingDocs(docs[c], Len(docs[c]))
              /\ hpc'[c] = (IF batch'[c] # <<>> THEN "handoff" ELSE "none")
      ]_vars

\* a call found its first document in the cache and handed off a batch of
\* its second document alone
C18_Witness ==
    \E c \in Calls :
        /\ Len(reg[c]) = 2
        /\ reg[c][1].how = "hit"
        /\ reg[c][2].how = "fresh"
        /\ batch[c] = <<docs[c][2]>>
        /\ hpc[c] = "handoff"

\* the Generator returned one embedding for each document of batch b, and no error
Succeeded(b) ==
    /\ hpc[b] \in {"lock", "store", "notify", "done", "panic"}
    /\ ~Failed(b)
    /\ Len(gres[b].embeddings) = Len(batch[b])

\* handleGen of batch b has completed lines 127-143 for position i
Published(b, i) ==
    /\ hpc[b] \in {"store", "notify", "done", "panic"}
    /\ \/ hidx[b] > i
       \/ hidx[b] = i /\ hpc[b] = "done"

\* C19: a batch is received at most once, so the Generator invocations with
\* a key are as many as the received batches that hold it; and for a batch
\* that succeeded, once position i is published its key is cached with the
\* i-th returned embedding and every waiter of the key has been sent it.
C19_BatchPublishedInOrder ==
    /\ \A k \in Keys :
          genCalls[k] = Cardinality({b \in Calls : Invoked(b) /\ k \in Range(batch[b])})
    /\ \A b \in Calls :
          Succeeded(b) =>
              \A i \in 1..Len(batch[b]) :
                  Published(b, i) =>
                      /\ batch[b][i] \in DOMAIN cache
                      /\ cache[batch[b][i]] = gres[b].embeddings[i]
                      /\ \A s \in BatchWaiters(b, batch[b][i]) :
                            WrittenTo(s) = <<res(gres[b].embeddings[i], NilErr)>>

\* a batch of two documents succeeded with two different embeddings and is
\* fully published, and a call that joined one of them was sent its embedding
C19_Witness ==
    \E b \in Calls :
        /\ Succeeded(b)
        /\ hpc[b] = "done"
        /\ Len(batch[b]) = 2
        /\ gres[b].embeddings[1] # gres[b].embeddings[2]
        /\ \E s \in BatchWaiters(b, batch[b][2]) : s[1] # b /\ Delivered(s)

\* sink s is in the waiting list of its document
InRegistry(s) == KeyOf(s) \in DOMAIN waiting /\ s \in Range(waiting[KeyOf(s)])

\* C20 (atomic publication): every sink registered as a waiter is in the
\* waiting list of its document until it is notified, and no sink in a
\* waiting list has been notified: a sink leaves the map exactly when it is
\* notified, and none joins a list whose sinks have been notified.
C20_PublishAtomic ==
    /\ \A s \in Sinks : HowOf(s) # "hit" => (InRegistry(s) \/ Delivered(s))
    /\ \A k \in DOMAIN waiting : \A s \in Range(waiting[k]) :
          /\ s \in Sinks
          /\ KeyOf(s) = k
          /\ ~Delivered(s)

\* the creator of a failed batch and a call that joined its key have both
\* been sent the error, and the key has left the waiting map
C20_Witness ==
    \E k \in Keys : \E s, t \in WaitersIn(k, 1) :
        /\ k \notin DOMAIN waiting
        /\ HowOf(s) = "fresh" /\ HowOf(t) = "join"
        /\ s[1] # t[1]
        /\ Delivered(s) /\ Delivered(t)
        /\ WrittenTo(t)[1].err # NilErr

\* the state of key k as the two maps show it
KeyState(cch, w, k) ==
    IF k \in DOMAIN cch THEN "cached"
    ELSE IF k \in DOMAIN w THEN "in-flight"
    ELSE "absent"

\* the batch that handleGen is publishing under the lock contains k and its
\* Generator invocation returned an error (failed) or none
Publishing(k, failed) ==
    \E b \in Calls :
        /\ lock = <<"gen", b>>
        /\ k \in Range(batch[b])
        /\ Failed(b) = failed

\* C21 (state machine of a key): every step leaves the state of a key as it
\* is or takes it from absent to in-flight (a call registers its first
\* waiter), from in-flight to cached (the batch being published succeeded) or
\* from in-flight to absent (the batch being published failed).
C21_KeyStateMachine ==
    [][\A k \in Keys :
          LET old == KeyState(cache, waiting, k)
              new == KeyState(cache', waiting', k)
          IN \/ new = old
             \/ /\ old = "absent" /\ new = "in-flight"
                /\ \E c \in Calls : pc[c] = "crit" /\ pc'[c] = "recv" /\ k \in Range(docs[c])
             \/ old = "in-flight" /\ new = "cached" /\ Publishing(k, FALSE)
             \/ old = "in-flight" /\ new = "absent" /\ Publishing(k, TRUE)
      ]_vars

\* requestEmbeddings found every document of call c in the cache
AllHits(c) ==
    /\ Len(reg[c]) = Len(docs[c])
    /\ \A i \in 1..Len(reg[c]) : reg[c][i].how = "hit"

C23_FirstFailureReturned ==
    \A c \in Calls :
        /\ pc[c] \in {"recv", "done"} =>
              \A j \in 1..(idx[c] - 1) :
                  /\ sink[c][j] = <<>>
                  /\ Len(written[c][j]) = 1
                  /\ written[c][j][1].err = NilErr
        /\ (pc[c] = "done" /\ ret[c].st = "err") =>
              /\ idx[c] \in 1..Len(docs[c])
              /\ Len(written[c][idx[c]]) = 1
              /\ LET r == written[c][idx[c]][1]
                     k == docs[c][idx[c]]
                 IN /\ r.err # NilErr
                    /\ \A b \in BatchesIn(k, reg[c][idx[c]].epoch) : r = FailureOf(b)
                    /\ ret[c].err = Wrap("getting embedding", r.err)

\* both documents of a call failed, in two different batches, and the call
\* returned the error of the first without reading the sink of the second
C23_Witness ==
    \E c \in Calls :
        /\ pc[c] = "done"
        /\ ret[c].st = "err"
        /\ idx[c] = 1
        /\ Len(docs[c]) = 2
        /\ Len(sink[c][2]) = 1
        /\ sink[c][2][1].err # NilErr
        /\ sink[c][2][1].err.cause # ret[c].err.cause

\* C24 (unread sinks): a handler that is to notify the waiters of a key can
\* always do so at once, whoever has stopped reading; and a sink left unread
\* by a call that returned an error is notified together with the sinks of
\* the other calls that wait for the same key.
C24_UnreadSinksHarmless ==
    /\ \A b \in Calls : (hpc[b] = "notify" /\ ~crashed) => ENABLED HandleNotify(b)
    /\ \A c \in Calls :
          (pc[c] = "done" /\ ret[c].st = "err") =>
              \A j \in (idx[c] + 1)..Len(docs[c]) :
                  reg[c][j].how # "hit" =>
                      \A t \in WaitersIn(docs[c][j], reg[c][j].epoch) :
                          WrittenTo(t) = WrittenTo(<<c, j>>)

\* a call returned the error of its first document; its second sink has
\* been sent the result of the second document and is left unread, and the
\* other call, which waited for the second document too, was sent the result
C24_Witness ==
    \E c, d \in Calls :
        /\ c # d
        /\ pc[c] = "done"
        /\ ret[c].st = "err"
        /\ idx[c] = 1
        /\ Len(docs[c]) = 2
        /\ Len(sink[c][2]) = 1
        /\ \E j \in Positions(d) :
              /\ docs[d][j] = docs[c][2]
              /\ reg[d][j].how # "hit"
              /\ reg[d][j].epoch = reg[c][2].epoch
              /\ Delivered(<<d, j>>)

\* C25 (no read past the end): handleGen reads embeddings[i] only when the
\* Generator returned more than i embeddings, and so never panics.
C25_NoReadPastEnd ==
    \A b \in Calls :
        /\ hpc[b] = "store" => hidx[b] <= Len(gres[b].embeddings)
        /\ hpc[b] # "panic"

C27_BatchPublishedWhole ==
    \A c, b \in Calls :
        (/\ lock = <<"req", c>>
         /\ hpc[b] \in {"lock", "store", "notify", "done", "panic"}
         /\ ContractKept) =>
            \/ \A k \in Range(batch[b]) : Unpublished(b, k)
            \/ \A k \in Range(batch[b]) : ~Unpublished(b, k)

\* C28 (batches received before the end of the lifetime context): once the
\* lifetime context is done, every Generator invocation has returned a
\* success or an error and the program can take no further step, the only
\* keys left in the waiting map are those of batches that the loop never
\* received, and every waiter of every other batch has been notified.
C28_ReceivedBatchPublished ==
    (ctxDone /\ ContractKept /\ ~ENABLED ProgramStep) =>
        /\ \A k \in DOMAIN waiting :
              \E b \in Calls : hpc[b] = "handoff" /\ k \in Range(batch[b])
        /\ \A b \in Calls :
              Invoked(b) =>
                  \A k \in Range(batch[b]) : \A s \in BatchWaiters(b, k) : Delivered(s)

====
